---- MODULE Spec2Model ----
(***************************************************************************)
(* A model of src/extension.ts of vsc-prettify-symbols-mode: the glue that *)
(* keeps one PrettyDocumentController ("session") per open document, the   *)
(* global enable flag, the onDidEnabledChange observers, the registered    *)
(* additional substitutions and the configuration reload.                  *)
(*                                                                         *)
(* The extension host is single threaded: every handler runs to its end,   *)
(* except openDocument, which is async and yields once, at                 *)
(* `await loadGrammar(...)`.  Each action below is one handler run to its  *)
(* end (or to its await); GrammarLoaded is the continuation of one         *)
(* suspended openDocument.                                                 *)
(*                                                                         *)
(* JavaScript values: `undefined` is the string Undefined for scalar       *)
(* fields, booleans of the configuration are the strings "true"/"false"    *)
(* (a field may also be Undefined), and an optional object is a set with   *)
(* at most one element.  Objects have no identity in TLA+, so a language   *)
(* entry carries `current`: it is an entry of the settings object that     *)
(* `settings` holds now (reloadConfiguration clears it in every entry that *)
(* a controller or a suspended openDocument still holds).                  *)
(***************************************************************************)
EXTENDS Integers, Sequences, FiniteSets, TLC

Undefined == "undefined"
None == "none"

(* ------------------------------ bounds -------------------------------- *)
\* at most MaxPending openDocument calls are suspended at their await
MaxPending == 2
\* at most MaxDisposables undisposed Disposables of onDidEnabledChange per handler
MaxDisposables == 2

(* --------------------------- the environment -------------------------- *)
\* the text documents of the host; a document's uri is its identity
Docs == {"d1", "d2", "d3"}
\* vscode.workspace.textDocuments is iterated in this order
DocOrder == <<"d1", "d2", "d3">>
\* doc.languageId
languageId(doc) ==
  CASE doc = "d1" -> "haskell"
    [] doc = "d2" -> "ocaml"
    [] OTHER -> "plaintext"

\* the functions other extensions pass to onDidEnabledChange
Handlers == {"h1", "h2"}

\* the entries other extensions pass to registerSubstitutions
ApiEntries ==
  { [language |-> "ocaml",
     substitutions |-> << [ugly |-> "'a", pretty |-> "alpha", scope |-> Undefined] >>] }

\* the candidate contents of the user's "prettifySymbolsMode" settings section
UserConfigs == <<
  [ substitutions |-> <<
      [ language |-> "haskell",
        substitutions |-> << [ugly |-> "->", pretty |-> "arrow", scope |-> Undefined] >>,
        revealOn |-> Undefined, adjustCursorMovement |-> Undefined,
        prettyCursor |-> Undefined, combineIdenticalScopes |-> Undefined ],
      [ language |-> "ocaml",
        substitutions |-> << [ugly |-> "fun", pretty |-> "lambda", scope |-> "keyword"] >>,
        revealOn |-> "selection", adjustCursorMovement |-> "false",
        prettyCursor |-> "none", combineIdenticalScopes |-> "true" ],
      [ language |-> "haskell",
        substitutions |-> << [ugly |-> "\\", pretty |-> "lambda", scope |-> "keyword"] >>,
        revealOn |-> Undefined, adjustCursorMovement |-> Undefined,
        prettyCursor |-> Undefined, combineIdenticalScopes |-> Undefined ] >>,
    revealOn |-> Undefined, adjustCursorMovement |-> Undefined,
    prettyCursor |-> Undefined, hideTextMethod |-> Undefined ],
  [ substitutions |-> <<
      [ language |-> "plaintext",
        substitutions |-> << [ugly |-> "TODO", pretty |-> "check", scope |-> Undefined] >>,
        revealOn |-> Undefined, adjustCursorMovement |-> Undefined,
        prettyCursor |-> Undefined, combineIdenticalScopes |-> Undefined ],
      [ language |-> "haskell",
        substitutions |-> << [ugly |-> "forall", pretty |-> "all", scope |-> "keyword"],
                             [ugly |-> "->", pretty |-> "arrow", scope |-> Undefined] >>,
        revealOn |-> "cursor-inside", adjustCursorMovement |-> "false",
        prettyCursor |-> Undefined, combineIdenticalScopes |-> "false" ],
      [ language |-> "ocaml",
        substitutions |-> << >>,
        revealOn |-> Undefined, adjustCursorMovement |-> Undefined,
        prettyCursor |-> Undefined, combineIdenticalScopes |-> Undefined ],
      [ language |-> "ocaml",
        substitutions |-> << [ugly |-> "fun", pretty |-> "lambda", scope |-> Undefined] >>,
        revealOn |-> Undefined, adjustCursorMovement |-> Undefined,
        prettyCursor |-> Undefined, combineIdenticalScopes |-> Undefined ] >>,
    revealOn |-> "active-line", adjustCursorMovement |-> "true",
    prettyCursor |-> "boxed", hideTextMethod |-> "hack-fontSize" ] >>

(* ------------------------------ the state ----------------------------- *)
VARIABLES
  phase,                   \* "loaded" | "active" | "deactivated" (activate / deactivate)
  prettySymbolsEnabled,    \* the global flag
  documents,               \* Map<Uri, PrettyDocumentController>, in insertion order
  settings,                \* the current Settings
  onEnabledChangeHandlers, \* Set of handlers, in insertion order
  additionalSubstitutions, \* Set of api.LanguageEntry
  textMateRegistry,        \* "registry" | Undefined
  pending,                 \* the openDocument calls suspended at their await
  orphaned,                \* uris of controllers not disposed that documents.set dropped
  textDocuments,           \* host: vscode.workspace.textDocuments
  configuration,           \* host: which of UserConfigs the user's settings hold
  disposables,             \* host: undisposed Disposables of onDidEnabledChange, per handler
  lastOp                   \* history: the last handler run and the calls it made

vars == << phase, prettySymbolsEnabled, documents, settings, onEnabledChangeHandlers,
           additionalSubstitutions, textMateRegistry, pending, orphaned, textDocuments,
           configuration, disposables, lastOp >>

(* ----------------------- Map and Set of JavaScript -------------------- *)
MapHas(m, k) == \E i \in DOMAIN m : m[i].key = k
MapIndex(m, k) == CHOOSE i \in DOMAIN m : m[i].key = k
MapGet(m, k) == m[MapIndex(m, k)].value
\* Map.set keeps the place of a key it already holds
MapSet(m, k, v) ==
  IF MapHas(m, k) THEN [m EXCEPT ![MapIndex(m, k)].value = v]
  ELSE Append(m, [key |-> k, value |-> v])
MapDelete(m, k) == SelectSeq(m, LAMBDA e : e.key # k)
MapKeys(m) == { m[i].key : i \in DOMAIN m }
MapValues(m) == { m[i].value : i \in DOMAIN m }

\* one call the handler makes: `call` on `on` (a document's controller, a handler or
\* the registry) with `arg`; throws: the callee threw
Call(call, on, arg, throws) == [call |-> call, on |-> on, arg |-> arg, throws |-> throws]

SetHas(s, x) == \E i \in DOMAIN s : s[i] = x
SetAdd(s, x) == IF SetHas(s, x) THEN s ELSE Append(s, x)
SetDelete(s, x) == SelectSeq(s, LAMBDA y : y # x)

(* ------------------- configuration (reloadConfiguration) -------------- *)
\* configuration.get(key, default)
ConfigGet(value, default) == IF value = Undefined THEN default ELSE value

\* the Settings object literal of reloadConfiguration
readSettings(cfg) ==
  [ substitutions |->
      [ i \in DOMAIN cfg.substitutions |->
          [ language |-> cfg.substitutions[i].language,
            substitutions |-> cfg.substitutions[i].substitutions,
            revealOn |-> cfg.substitutions[i].revealOn,
            adjustCursorMovement |-> cfg.substitutions[i].adjustCursorMovement,
            prettyCursor |-> cfg.substitutions[i].prettyCursor,
            combineIdenticalScopes |-> cfg.substitutions[i].combineIdenticalScopes,
            current |-> TRUE ] ],
    revealOn |-> ConfigGet(cfg.revealOn, "cursor"),
    adjustCursorMovement |-> ConfigGet(cfg.adjustCursorMovement, "false"),
    prettyCursor |-> ConfigGet(cfg.prettyCursor, "boxed"),
    hideTextMethod |-> ConfigGet(cfg.hideTextMethod, "hack-letterSpacing") ]

\* the defaults a test for falsy values (`!language.x`) instead of
\* `=== undefined` would set: an explicit false is overwritten too
setDefaultsFalsy(s) ==
  [ s EXCEPT !.substitutions =
      [ i \in DOMAIN @ |->
          [ @[i] EXCEPT
              !.revealOn = IF @ = Undefined THEN s.revealOn ELSE @,
              !.adjustCursorMovement =
                 IF @ = Undefined \/ @ = "false" THEN s.adjustCursorMovement ELSE @,
              !.prettyCursor = IF @ = Undefined THEN s.prettyCursor ELSE @,
              !.combineIdenticalScopes = IF @ = Undefined THEN "false" ELSE @ ] ] ]

\* "Set default values for language-properties that were not specified"
setDefaults(s) ==
  [ s EXCEPT !.substitutions =
      [ i \in DOMAIN @ |->
          [ @[i] EXCEPT
              !.revealOn = IF @ = Undefined THEN s.revealOn ELSE @,
              !.adjustCursorMovement = IF @ = Undefined THEN s.adjustCursorMovement ELSE @,
              !.prettyCursor = IF @ = Undefined THEN s.prettyCursor ELSE @,
              !.combineIdenticalScopes = IF @ = Undefined THEN "false" ELSE @ ] ] ]

(* ------------------------------ getLanguageEntry ---------------------- *)
RECURSIVE firstEntry(_, _, _)
\* the for loop of getLanguageEntry, from index i on
firstEntry(substitutions, lang, i) ==
  IF i > Len(substitutions) THEN {}
  ELSE IF substitutions[i].language = lang THEN {substitutions[i]}
  ELSE firstEntry(substitutions, lang, i + 1)

\* the entry a wrong loop would return: the last equal entry, not the first
getLanguageEntryLastWins(s, doc) ==
  LET lang == languageId(doc)
      I == { i \in DOMAIN s.substitutions : s.substitutions[i].language = lang }
  IN IF lang = "plaintext" \/ lang = "jsonc" \/ I = {} THEN {}
     ELSE { s.substitutions[CHOOSE i \in I : \A j \in I : j <= i] }

\* {} is `undefined`, {e} is the entry e
getLanguageEntry(s, doc) ==
  LET lang == languageId(doc)
  IN IF lang = "plaintext" \/ lang = "jsonc" THEN {}
     ELSE firstEntry(s.substitutions, lang, 1)

(* ------------------------------ sessions ------------------------------ *)
\* new PrettyDocumentController(doc, language, {hideTextMethod, textMateGrammar});
\* s is the settings object at the time of the call, so sameReload says that
\* language is an entry of the settings hideTextMethod was read from
PrettyDocumentController(doc, language, s, grammar) ==
  [ doc |-> doc, language |-> language, hideTextMethod |-> s.hideTextMethod,
    textMateGrammar |-> grammar, sameReload |-> language.current, disposed |-> FALSE ]

RECURSIVE disposeFrom(_, _, _)
\* the loop of unloadDocuments from the i-th value on, then documents.clear();
\* the controller of `fault` throws from dispose, which ends the loop
disposeFrom(m, i, fault) ==
  IF i > Len(m) THEN [documents |-> << >>, calls |-> << >>, threw |-> FALSE]
  ELSE IF m[i].key = fault
    THEN [documents |-> m, calls |-> << Call("dispose", m[i].key, None, TRUE) >>, threw |-> TRUE]
    ELSE LET rest == disposeFrom([m EXCEPT ![i].value.disposed = TRUE], i + 1, fault)
         IN [rest EXCEPT !.calls = << Call("dispose", m[i].key, None, FALSE) >> \o @]

unloadDocuments(m, fault) == disposeFrom(m, 1, fault)

\* every(s => s.scope !== undefined) in the place of some(...)
usesScopesEvery(language) ==
  \A i \in DOMAIN language.substitutions : language.substitutions[i].scope # Undefined

\* some(s => s.scope !== undefined)
usesScopes(language) ==
  \E i \in DOMAIN language.substitutions : language.substitutions[i].scope # Undefined

\* an openDocument without the test of lines 282-284: it builds a controller
\* also for a document that has one
openDocumentRecreate(st, env, doc) ==
  IF ~env.prettySymbolsEnabled THEN st
  ELSE LET found == getLanguageEntry(env.settings, doc)
       IN IF found = {} THEN st
          ELSE LET language == CHOOSE e \in found : TRUE
               IN IF Len(language.substitutions) = 0 THEN st
                  ELSE IF env.textMateRegistry # Undefined /\ usesScopes(language)
                    THEN [st EXCEPT
                            !.pending = Append(@, [doc |-> doc, language |-> language]),
                            !.calls = Append(@, Call("loadGrammar", doc, None, FALSE))]
                    ELSE [st EXCEPT
                            !.documents = MapSet(@, doc,
                                PrettyDocumentController(doc, language, env.settings, Undefined)),
                            !.calls = Append(@, Call("new", doc, None, FALSE))]

\* openDocument up to its await or its end; st = [documents, pending, orphaned, calls],
\* env = [prettySymbolsEnabled, settings, textMateRegistry, fault]; a throw of
\* refresh is caught by the try of openDocument
openDocument(st, env, doc) ==
  IF ~env.prettySymbolsEnabled THEN st
  ELSE IF MapHas(st.documents, doc)
    THEN [st EXCEPT !.calls = Append(@, Call("refresh", doc, None, env.fault = doc))]
    ELSE LET found == getLanguageEntry(env.settings, doc)
         IN IF found = {} THEN st
            ELSE LET language == CHOOSE e \in found : TRUE
                 IN IF Len(language.substitutions) = 0 THEN st
                    ELSE IF env.textMateRegistry # Undefined /\ usesScopes(language)
                      THEN [st EXCEPT
                              !.pending = Append(@, [doc |-> doc, language |-> language]),
                              !.calls = Append(@, Call("loadGrammar", doc, None, FALSE))]
                      ELSE [st EXCEPT
                              !.documents = MapSet(@, doc,
                                  PrettyDocumentController(doc, language, env.settings, Undefined)),
                              !.calls = Append(@, Call("new", doc, None, FALSE))]

\* the continuation a wrong catch would give: a rejected load ends openDocument
openDocumentResumeFatal(st, env, p, grammar) ==
  IF grammar = Undefined THEN st
  ELSE [st EXCEPT
          !.documents = MapSet(@, p.doc,
              PrettyDocumentController(p.doc, p.language, env.settings, grammar)),
          !.orphaned = IF MapHas(st.documents, p.doc) /\ ~MapGet(st.documents, p.doc).disposed
                       THEN @ \cup {p.doc} ELSE @,
          !.calls = Append(@, Call("new", p.doc, None, FALSE))]

\* openDocument after its await: p is the suspended call, grammar the result
\* of loadGrammar (Undefined when it was rejected)
openDocumentResume(st, env, p, grammar) ==
  [st EXCEPT
     !.documents = MapSet(@, p.doc,
         PrettyDocumentController(p.doc, p.language, env.settings, grammar)),
     !.orphaned = IF MapHas(st.documents, p.doc) /\ ~MapGet(st.documents, p.doc).disposed
                  THEN @ \cup {p.doc} ELSE @,
     !.calls = Append(@, Call("new", p.doc, None, FALSE))]

RECURSIVE openDocuments(_, _, _)
\* for (const doc of vscode.workspace.textDocuments) openDocument(doc)
openDocuments(st, env, i) ==
  IF i > Len(DocOrder) THEN st
  ELSE IF DocOrder[i] \in textDocuments
    THEN openDocuments(openDocument(st, env, DocOrder[i]), env, i + 1)
    ELSE openDocuments(st, env, i + 1)

\* `settings = {...}` drops the settings object whose entries these hold
supersededDocuments(m) == [i \in DOMAIN m |-> [m[i] EXCEPT !.value.language.current = FALSE]]
supersededPending(q) == [i \in DOMAIN q |-> [q[i] EXCEPT !.language.current = FALSE]]

\* reloadConfiguration with the flag `enabled`, reading UserConfigs[c]; tmOk: the
\* tm.Registry constructor returns; fault: the document whose controller throws
reloadConfiguration(enabled, c, tmOk, fault) ==
  LET registry == IF tmOk THEN "registry" ELSE Undefined
      s == setDefaults(readSettings(UserConfigs[c]))
      u == unloadDocuments(supersededDocuments(documents), fault)
      env == [prettySymbolsEnabled |-> enabled, settings |-> s,
              textMateRegistry |-> registry, fault |-> fault]
      st == [documents |-> u.documents, pending |-> supersededPending(pending),
             orphaned |-> orphaned, calls |-> u.calls]
  IN [ textMateRegistry |-> registry, settings |-> s,
       st |-> IF u.threw THEN st ELSE openDocuments(st, env, 1),
       threw |-> IF u.threw THEN "session" ELSE None ]

RECURSIVE notifyFrom(_, _, _, _)
\* onEnabledChangeHandlers.forEach(h => h(v)) from the i-th handler on; the
\* handler `thrower` throws, which ends the forEach
notifyFrom(handlers, v, i, thrower) ==
  IF i > Len(handlers) THEN [calls |-> << >>, threw |-> FALSE]
  ELSE IF handlers[i] = thrower
    THEN [calls |-> << Call("handler", handlers[i], v, TRUE) >>, threw |-> TRUE]
    ELSE LET rest == notifyFrom(handlers, v, i + 1, thrower)
         IN [rest EXCEPT !.calls = << Call("handler", handlers[i], v, FALSE) >> \o @]

notify(handlers, v, thrower) == notifyFrom(handlers, v, 1, thrower)

(* ------------------------------ Init ---------------------------------- *)
\* `let settings: Settings` before activate ran
NoSettings ==
  [ substitutions |-> << >>, revealOn |-> Undefined, adjustCursorMovement |-> Undefined,
    prettyCursor |-> Undefined, hideTextMethod |-> Undefined ]

\* the record of the handler that ran last
Op(op, arg, calls, threw) == [op |-> op, arg |-> arg, calls |-> calls, threw |-> threw]

\* the module is loaded and activate has not run; the host may hold open documents
Init ==
  /\ phase = "loaded"
  /\ prettySymbolsEnabled = TRUE
  /\ documents = << >>
  /\ settings = NoSettings
  /\ onEnabledChangeHandlers = << >>
  /\ additionalSubstitutions = {}
  /\ textMateRegistry = Undefined
  /\ pending = << >>
  /\ orphaned = {}
  /\ textDocuments \in SUBSET Docs
  /\ configuration \in DOMAIN UserConfigs
  /\ disposables = [h \in Handlers |-> 0]
  /\ lastOp = Op("load", None, << >>, None)

(* ------------------------------ helpers of the actions ---------------- *)
Current(fault) ==
  [prettySymbolsEnabled |-> prettySymbolsEnabled, settings |-> settings,
   textMateRegistry |-> textMateRegistry, fault |-> fault]

Start == [documents |-> documents, pending |-> pending, orphaned |-> orphaned, calls |-> << >>]

\* the documents whose controller may throw in a handler: those that have one
Faults == {None} \cup MapKeys(documents)
Throwers == {None} \cup { onEnabledChangeHandlers[i] : i \in DOMAIN onEnabledChangeHandlers }

\* the state a reloadConfiguration leaves, r its result; `before` the calls made before it
Reloaded(r, op, arg, before) ==
  /\ Len(r.st.pending) <= MaxPending
  /\ textMateRegistry' = r.textMateRegistry
  /\ settings' = r.settings
  /\ documents' = r.st.documents
  /\ pending' = r.st.pending
  /\ orphaned' = r.st.orphaned
  /\ lastOp' = Op(op, arg, before \o r.st.calls, r.threw)

(* ------------------------------ activate / deactivate ----------------- *)
\* activate: registers the commands and listeners, then reloadConfiguration()
Activate(tmOk) ==
  /\ phase = "loaded"
  /\ phase' = "active"
  /\ Reloaded(reloadConfiguration(prettySymbolsEnabled, configuration, tmOk, None),
              "activate", None, << >>)
  /\ UNCHANGED << prettySymbolsEnabled, onEnabledChangeHandlers, additionalSubstitutions,
                  textDocuments, configuration, disposables >>

\* deactivate: forEach(h => h(false)); unloadDocuments()
Deactivate(thrower, fault) ==
  /\ phase = "active"
  /\ phase' = "deactivated"
  /\ LET n == notify(onEnabledChangeHandlers, "false", thrower)
         u == unloadDocuments(documents, fault)
     IN IF n.threw
          THEN /\ documents' = documents
               /\ lastOp' = Op("deactivate", None, n.calls, "handler")
          ELSE /\ documents' = u.documents
               /\ lastOp' = Op("deactivate", None, n.calls \o u.calls,
                               IF u.threw THEN "session" ELSE None)
  /\ UNCHANGED << prettySymbolsEnabled, settings, onEnabledChangeHandlers,
                  additionalSubstitutions, textMateRegistry, pending, orphaned,
                  textDocuments, configuration, disposables >>

(* ------------------------------ host events --------------------------- *)
\* onDidOpenTextDocument(openDocument), up to the await of openDocument
DidOpenTextDocument(doc, fault) ==
  /\ phase = "active"
  /\ doc \notin textDocuments
  /\ textDocuments' = textDocuments \cup {doc}
  /\ LET st == openDocument(Start, Current(fault), doc)
     IN /\ Len(st.pending) <= MaxPending
        /\ documents' = st.documents
        /\ pending' = st.pending
        /\ orphaned' = st.orphaned
        /\ lastOp' = Op("openDocument", doc, st.calls, None)
  /\ UNCHANGED << phase, prettySymbolsEnabled, settings, onEnabledChangeHandlers,
                  additionalSubstitutions, textMateRegistry, configuration, disposables >>

\* the continuation of the i-th suspended openDocument: loadGrammar resolved
\* (ok) or was rejected
GrammarLoaded(i, ok) ==
  /\ i \in DOMAIN pending
  /\ LET p == pending[i]
         st == openDocumentResume(
                 [Start EXCEPT !.pending = SubSeq(pending, 1, i - 1)
                                             \o SubSeq(pending, i + 1, Len(pending))],
                 Current(None), p, IF ok THEN "grammar" ELSE Undefined)
     IN /\ documents' = st.documents
        /\ pending' = st.pending
        /\ orphaned' = st.orphaned
        /\ lastOp' = Op(IF ok THEN "grammarResolved" ELSE "grammarRejected", p.doc,
                        st.calls, None)
  /\ UNCHANGED << phase, prettySymbolsEnabled, settings, onEnabledChangeHandlers,
                  additionalSubstitutions, textMateRegistry, textDocuments, configuration,
                  disposables >>

\* onDidCloseTextDocument(closeDocument); a throw of dispose leaves the handler
DidCloseTextDocument(doc, fault) ==
  /\ phase = "active"
  /\ doc \in textDocuments
  /\ textDocuments' = textDocuments \ {doc}
  /\ IF ~MapHas(documents, doc)
       THEN /\ documents' = documents
            /\ lastOp' = Op("closeDocument", doc, << >>, None)
       ELSE IF fault = doc
         THEN /\ documents' = documents
              /\ lastOp' = Op("closeDocument", doc, << Call("dispose", doc, None, TRUE) >>,
                              "session")
         ELSE /\ documents' = MapDelete(documents, doc)
              /\ lastOp' = Op("closeDocument", doc, << Call("dispose", doc, None, FALSE) >>,
                              None)
  /\ UNCHANGED << phase, prettySymbolsEnabled, settings, onEnabledChangeHandlers,
                  additionalSubstitutions, textMateRegistry, pending, orphaned,
                  configuration, disposables >>

\* onDidChangeConfiguration(onConfigurationChanged): the user's settings now hold c
DidChangeConfiguration(c, tmOk, fault) ==
  /\ phase = "active"
  /\ configuration' = c
  /\ Reloaded(reloadConfiguration(prettySymbolsEnabled, c, tmOk, fault),
              "onConfigurationChanged", None, << >>)
  /\ UNCHANGED << phase, prettySymbolsEnabled, onEnabledChangeHandlers,
                  additionalSubstitutions, textDocuments, disposables >>

\* a forwarding handler that would tell every controller of the registry
\* instead of the one of the event's document
ForwardToAll(op, call, doc, fault) ==
  /\ phase = "active"
  /\ doc \in textDocuments \cup {None}
  /\ lastOp' = Op(op, doc,
                  [ i \in DOMAIN documents |->
                      Call(call, documents[i].key, None, fault = documents[i].key) ],
                  None)
  /\ UNCHANGED << phase, prettySymbolsEnabled, documents, settings,
                  onEnabledChangeHandlers, additionalSubstitutions, textMateRegistry,
                  pending, orphaned, textDocuments, configuration, disposables >>

\* a handler that only forwards to the controller of the editor's document, inside
\* try/catch: selectionChanged, changeActiveTextEditor, copyWithSubstitutions;
\* doc = None is the call without an editor, which returns at once
Forward(op, call, doc, fault) ==
  /\ phase = "active"
  /\ doc \in textDocuments \cup {None}
  /\ lastOp' = Op(op, doc,
                  IF MapHas(documents, doc) THEN << Call(call, doc, None, fault = doc) >>
                  ELSE << >>, None)
  /\ UNCHANGED << phase, prettySymbolsEnabled, documents, settings,
                  onEnabledChangeHandlers, additionalSubstitutions, textMateRegistry,
                  pending, orphaned, textDocuments, configuration, disposables >>

SelectionChanged(doc, fault) == doc # None /\ Forward("selectionChanged", "selectionChanged", doc, fault)
ChangeActiveTextEditor(doc, fault) == Forward("changeActiveTextEditor", "gotFocus", doc, fault)
CopyWithSubstitutions(doc, fault) == Forward("copyWithSubstitutions", "copyDecorated", doc, fault)

(* ------------------------------ commands ------------------------------ *)
\* disablePrettySymbols, run as the command `op`
disablePrettySymbols(op, thrower, fault) ==
  /\ prettySymbolsEnabled' = FALSE
  /\ LET n == notify(onEnabledChangeHandlers, "false", thrower)
         u == unloadDocuments(documents, fault)
     IN IF n.threw
          THEN /\ documents' = documents
               /\ lastOp' = Op(op, None, n.calls, "handler")
          ELSE /\ documents' = u.documents
               /\ lastOp' = Op(op, None, n.calls \o u.calls,
                               IF u.threw THEN "session" ELSE None)
  /\ UNCHANGED << phase, settings, onEnabledChangeHandlers, additionalSubstitutions,
                  textMateRegistry, pending, orphaned, textDocuments, configuration,
                  disposables >>

\* enablePrettySymbols, run as the command `op`
enablePrettySymbols(op, thrower, tmOk, fault) ==
  /\ prettySymbolsEnabled' = TRUE
  /\ LET n == notify(onEnabledChangeHandlers, "true", thrower)
     IN IF n.threw
          THEN /\ lastOp' = Op(op, None, n.calls, "handler")
               /\ UNCHANGED << documents, settings, textMateRegistry, pending, orphaned >>
          ELSE Reloaded(reloadConfiguration(TRUE, configuration, tmOk, fault),
                        op, None, n.calls)
  /\ UNCHANGED << phase, onEnabledChangeHandlers, additionalSubstitutions, textDocuments,
                  configuration, disposables >>

DisablePrettySymbols(thrower, fault) ==
  /\ phase = "active"
  /\ disablePrettySymbols("disablePrettySymbols", thrower, fault)

EnablePrettySymbols(thrower, tmOk, fault) ==
  /\ phase = "active"
  /\ enablePrettySymbols("enablePrettySymbols", thrower, tmOk, fault)

\* prettifySymbolsMode.togglePrettySymbols
TogglePrettySymbols(thrower, tmOk, fault) ==
  /\ phase = "active"
  /\ IF prettySymbolsEnabled
       THEN disablePrettySymbols("togglePrettySymbols", thrower, fault)
       ELSE enablePrettySymbols("togglePrettySymbols", thrower, tmOk, fault)

(* ------------------------------ the exported api ---------------------- *)
\* onDidEnabledChange(handler): the Set holds a function once
OnDidEnabledChange(handler) ==
  /\ phase = "active"
  /\ disposables[handler] < MaxDisposables
  /\ onEnabledChangeHandlers' = SetAdd(onEnabledChangeHandlers, handler)
  /\ disposables' = [disposables EXCEPT ![handler] = @ + 1]
  /\ lastOp' = Op("onDidEnabledChange", handler, << >>, None)
  /\ UNCHANGED << phase, prettySymbolsEnabled, documents, settings,
                  additionalSubstitutions, textMateRegistry, pending, orphaned,
                  textDocuments, configuration >>

\* dispose() of a Disposable that onDidEnabledChange(handler) returned
DisposeEnabledChange(handler) ==
  /\ phase = "active"
  /\ disposables[handler] > 0
  /\ onEnabledChangeHandlers' = SetDelete(onEnabledChangeHandlers, handler)
  /\ disposables' = [disposables EXCEPT ![handler] = @ - 1]
  /\ lastOp' = Op("onDidEnabledChange.dispose", handler, << >>, None)
  /\ UNCHANGED << phase, prettySymbolsEnabled, documents, settings,
                  additionalSubstitutions, textMateRegistry, pending, orphaned,
                  textDocuments, configuration >>

\* registerSubstitutions(substitutions): add, then reloadConfiguration()
RegisterSubstitutions(substitutions, tmOk, fault) ==
  /\ phase = "active"
  /\ additionalSubstitutions' = additionalSubstitutions \cup {substitutions}
  /\ Reloaded(reloadConfiguration(prettySymbolsEnabled, configuration, tmOk, fault),
              "registerSubstitutions", substitutions.language, << >>)
  /\ UNCHANGED << phase, prettySymbolsEnabled, onEnabledChangeHandlers, textDocuments,
                  configuration, disposables >>

\* dispose() of the Disposable that registerSubstitutions(substitutions) returned
DisposeSubstitutions(substitutions) ==
  /\ phase = "active"
  /\ substitutions \in additionalSubstitutions
  /\ additionalSubstitutions' = additionalSubstitutions \ {substitutions}
  /\ lastOp' = Op("registerSubstitutions.dispose", substitutions.language, << >>, None)
  /\ UNCHANGED << phase, prettySymbolsEnabled, documents, settings,
                  onEnabledChangeHandlers, textMateRegistry, pending, orphaned,
                  textDocuments, configuration, disposables >>

(* ------------------------------ the specifications ------------------- *)
(* The handlers of the extension, with every input, are the actions above.  *)
(* Three next-state relations put them together.  Next is the life cycle of *)
(* the sessions with controllers and observers that do not throw;           *)
(* NextFaults adds the controllers that throw and the handlers that forward *)
(* editor events; NextApi is the exported api and the commands, with        *)
(* observers that throw.  (The registered substitutions and the observers   *)
(* are read by no code of the life cycle, and a forwarding handler changes  *)
(* no state, so the product of the three adds states, not behaviour.)       *)

Next ==
  \/ \E tmOk \in BOOLEAN : Activate(tmOk)
  \/ Deactivate(None, None)
  \/ \E doc \in Docs : DidOpenTextDocument(doc, None)
  \/ \E i \in DOMAIN pending, ok \in BOOLEAN : GrammarLoaded(i, ok)
  \/ \E doc \in Docs : DidCloseTextDocument(doc, None)
  \/ \E c \in DOMAIN UserConfigs, tmOk \in BOOLEAN : DidChangeConfiguration(c, tmOk, None)
  \/ DisablePrettySymbols(None, None)
  \/ \E tmOk \in BOOLEAN : EnablePrettySymbols(None, tmOk, None)
  \/ \E tmOk \in BOOLEAN : TogglePrettySymbols(None, tmOk, None)

Spec == Init /\ [][Next]_vars

NextFaults ==
  \/ \E tmOk \in BOOLEAN : Activate(tmOk)
  \/ \E fault \in Faults : Deactivate(None, fault)
  \/ \E doc \in Docs, fault \in Faults : DidOpenTextDocument(doc, fault)
  \/ \E i \in DOMAIN pending, ok \in BOOLEAN : GrammarLoaded(i, ok)
  \/ \E doc \in Docs, fault \in Faults : DidCloseTextDocument(doc, fault)
  \/ \E fault \in Faults : DisablePrettySymbols(None, fault)
  \/ \E tmOk \in BOOLEAN, fault \in Faults : EnablePrettySymbols(None, tmOk, fault)
  \/ \E doc \in Docs, fault \in Faults : SelectionChanged(doc, fault)
  \/ \E doc \in Docs \cup {None}, fault \in Faults : ChangeActiveTextEditor(doc, fault)
  \/ \E doc \in Docs \cup {None}, fault \in Faults : CopyWithSubstitutions(doc, fault)

SpecFaults == Init /\ [][NextFaults]_vars

NextApi ==
  \/ \E tmOk \in BOOLEAN : Activate(tmOk)
  \/ \E thrower \in Throwers : Deactivate(thrower, None)
  \/ \E i \in DOMAIN pending, ok \in BOOLEAN : GrammarLoaded(i, ok)
  \/ \E thrower \in Throwers : DisablePrettySymbols(thrower, None)
  \/ \E thrower \in Throwers, tmOk \in BOOLEAN : EnablePrettySymbols(thrower, tmOk, None)
  \/ \E thrower \in Throwers, tmOk \in BOOLEAN : TogglePrettySymbols(thrower, tmOk, None)
  \/ \E handler \in Handlers : OnDidEnabledChange(handler)
  \/ \E handler \in Handlers : DisposeEnabledChange(handler)
  \/ \E e \in ApiEntries, tmOk \in BOOLEAN : RegisterSubstitutions(e, tmOk, None)
  \/ \E e \in ApiEntries : DisposeSubstitutions(e)

SpecApi == Init /\ [][NextApi]_vars

(* ------------------------------ vocabulary of the claims -------------- *)
\* the controllers the registry holds, and the suspended openDocument calls
Sessions == MapValues(documents)
Suspended == { pending[i] : i \in DOMAIN pending }

\* the handlers that end in reloadConfiguration
ReloadOps == {"activate", "onConfigurationChanged", "registerSubstitutions",
              "enablePrettySymbols", "togglePrettySymbols"}

\* the calls `call` the last handler made on `on`
CallsOn(call, on) ==
  { i \in DOMAIN lastOp.calls : lastOp.calls[i].call = call /\ lastOp.calls[i].on = on }

\* the entries of the current settings whose language is exactly the document's
EqualEntries(doc) ==
  { i \in DOMAIN settings.substitutions :
      settings.substitutions[i].language = languageId(doc) }

\* openDocument finds the document eligible: a language entry with rules
Eligible(doc) ==
  \E e \in getLanguageEntry(settings, doc) : Len(e.substitutions) > 0

\* the registry holds a live controller without grammar for the document
RegisteredWithoutGrammar(doc) ==
  /\ MapHas(documents, doc)
  /\ MapGet(documents, doc).textMateGrammar = Undefined
  /\ ~MapGet(documents, doc).disposed

(* ------------------------------ the claims ---------------------------- *)

\* C1: exclusive ownership of sessions: every controller that was constructed
\* and is not disposed is the value the registry holds for its document, so
\* documents.set never drops a controller that was not disposed.
C1_ExclusiveOwnership == orphaned = {}

\* C2: a session is destroyed on document-close: once a document is closed and
\* no openDocument for it is suspended any more, the registry holds no
\* controller for it and none that was constructed for it is left undisposed.
C2_DestroyedOnClose ==
  \A doc \in Docs :
    (doc \notin textDocuments /\ \A p \in Suspended : p.doc # doc)
      => ~MapHas(documents, doc) /\ doc \notin orphaned

\* C3: configuration reload replaces the rule sets atomically: every controller
\* in the registry was built from an entry of the current settings, and its
\* entry and its hideTextMethod are of the same reload.
C3_AtomicReload ==
  \A s \in Sessions : s.language.current /\ s.sameReload

\* C4: global disable holds in every quiescent state: between two handlers,
\* when the flag is false the registry is empty.
C4_DisabledMeansEmpty == ~prettySymbolsEnabled => documents = << >>

\* C5: a pending grammar load does not block the session: while an openDocument
\* is suspended at its grammar load, the registry holds a controller for its
\* document.
C5_SessionWhilePending == \A p \in Suspended : MapHas(documents, p.doc)

\* C6: grammar failure is non-fatal: when the grammar load of an eligible
\* document is rejected, or the registry could not be constructed, openDocument
\* constructs exactly one controller for the document, with an undefined
\* grammar, and the registry holds it.
C6_GrammarFailureNonFatal ==
  /\ lastOp.op = "grammarRejected"
       => /\ RegisteredWithoutGrammar(lastOp.arg)
          /\ Cardinality(CallsOn("new", lastOp.arg)) = 1
  /\ ( /\ lastOp.op = "openDocument"
       /\ prettySymbolsEnabled
       /\ textMateRegistry = Undefined
       /\ Eligible(lastOp.arg)
       /\ CallsOn("refresh", lastOp.arg) = {} )
       => /\ RegisteredWithoutGrammar(lastOp.arg)
          /\ Cardinality(CallsOn("new", lastOp.arg)) = 1
  /\ ( /\ lastOp.op \in ReloadOps
       /\ prettySymbolsEnabled
       /\ textMateRegistry = Undefined )
       => \A doc \in textDocuments :
            Eligible(doc) => /\ RegisteredWithoutGrammar(doc)
                             /\ Cardinality(CallsOn("new", doc)) = 1

\* C6 happens: a grammar load was rejected and the registry holds the
\* controller without grammar that the continuation constructed
C6_Witness ==
  /\ lastOp.op = "grammarRejected"
  /\ RegisteredWithoutGrammar(lastOp.arg)
  /\ \E s \in Sessions : s.doc = lastOp.arg /\ usesScopes(s.language)

\* the documents whose controller threw in the last handler
Faulted ==
  { lastOp.calls[i].on :
      i \in { j \in DOMAIN lastOp.calls :
                lastOp.calls[j].throws /\ lastOp.calls[j].call # "handler" } }

\* C7: fault isolation between documents: a throw of one document's controller
\* in a handler does not reach the host, and the other documents are still
\* processed: on unload their controllers are disposed and removed, on reload
\* they are re-created.
C7_FaultIsolation ==
  Faulted # {} =>
    /\ lastOp.threw = None
    /\ lastOp.op \in {"disablePrettySymbols", "deactivate"}
         => MapKeys(documents) \subseteq Faulted
    /\ (lastOp.op \in ReloadOps /\ prettySymbolsEnabled)
         => \A doc \in textDocuments \ Faulted :
              Eligible(doc) =>
                \/ \E s \in Sessions : s.doc = doc /\ s.language.current /\ ~s.disposed
                \/ \E p \in Suspended : p.doc = doc /\ p.language.current

\* C8: registered substitutions take effect on the next configuration reload:
\* after a reloadConfiguration, every open document of the language of a
\* registered entry has a controller (or a suspended openDocument) whose rule
\* set contains the rules of the entry.
C8_RegisteredSubstitutionsApplied ==
  (lastOp.op \in ReloadOps /\ lastOp.threw = None /\ prettySymbolsEnabled) =>
    \A e \in additionalSubstitutions :
      \A doc \in textDocuments :
        languageId(doc) = e.language =>
          \E x \in Sessions \cup Suspended :
            /\ x.doc = doc
            /\ x.language.current
            /\ \A i \in DOMAIN e.substitutions :
                 \E j \in DOMAIN x.language.substitutions :
                   x.language.substitutions[j] = e.substitutions[i]

\* the calls of observers the last handler made, and the other calls
HandlerCalls == SelectSeq(lastOp.calls, LAMBDA c : c.call = "handler")

\* C9: observer notification order: disablePrettySymbols, enablePrettySymbols
\* and deactivate call every registered observer exactly once, in the order of
\* registration, and before any controller is disposed or constructed.
C9_NotificationOrder ==
  lastOp.op \in {"disablePrettySymbols", "enablePrettySymbols", "togglePrettySymbols",
                 "deactivate"} =>
    /\ Len(HandlerCalls) = Len(onEnabledChangeHandlers)
    /\ \A i \in DOMAIN HandlerCalls : HandlerCalls[i].on = onEnabledChangeHandlers[i]
    /\ \A i \in DOMAIN lastOp.calls :
         lastOp.calls[i].call = "handler" => i <= Len(HandlerCalls)

GlobalDefaulted == {"revealOn", "adjustCursorMovement", "prettyCursor"}

\* an entry with the four fields defined
FullyDefined(e) ==
  /\ \A f \in GlobalDefaulted : e[f] # Undefined
  /\ e.combineIdenticalScopes # Undefined

\* C11: defaults fill only unset fields: after every reloadConfiguration each
\* language entry of settings.substitutions has revealOn, adjustCursorMovement,
\* prettyCursor and combineIdenticalScopes defined; a field the user set keeps
\* its value (also "false"), an unset one of the first three takes the global
\* setting of the same reload, an unset combineIdenticalScopes becomes false;
\* so every controller of the registry is built from an entry with all four.
C11_DefaultsFillUnset ==
  /\ phase # "loaded" =>
       LET raw == UserConfigs[configuration].substitutions
       IN /\ Len(settings.substitutions) = Len(raw)
          /\ \A i \in DOMAIN raw :
               /\ FullyDefined(settings.substitutions[i])
               /\ \A f \in GlobalDefaulted :
                    /\ settings[f] # Undefined
                    /\ settings.substitutions[i][f] =
                         IF raw[i][f] # Undefined THEN raw[i][f] ELSE settings[f]
               /\ settings.substitutions[i].combineIdenticalScopes =
                    IF raw[i].combineIdenticalScopes # Undefined
                    THEN raw[i].combineIdenticalScopes ELSE "false"
  /\ \A s \in Sessions : FullyDefined(s.language)

\* C11 happens: the registry holds a controller whose entry kept the "false" the
\* user set although the global setting is "true", and took the global
\* prettyCursor for the field the user left unset
C11_Witness ==
  \E s \in Sessions : \E i \in DOMAIN settings.substitutions :
    /\ s.language = settings.substitutions[i]
    /\ UserConfigs[configuration].substitutions[i].adjustCursorMovement = "false"
    /\ UserConfigs[configuration].substitutions[i].prettyCursor = Undefined
    /\ settings.adjustCursorMovement = "true"
    /\ s.language.adjustCursorMovement = "false"
    /\ s.language.prettyCursor = settings.prettyCursor

\* C12: selection-change routing and frame: a selection-changed event for a
\* document calls selectionChanged exactly once on the controller the registry
\* holds for the document and on no other controller; without a controller it
\* calls nothing.  Either way the registry, the settings, the enabled flag and
\* the observer set stay as they are and no grammar load is started.
C12_SelectionRouting ==
  [][ lastOp'.op = "selectionChanged" =>
        /\ UNCHANGED << documents, settings, prettySymbolsEnabled,
                        onEnabledChangeHandlers, pending, orphaned >>
        /\ lastOp'.threw = None
        /\ \A i \in DOMAIN lastOp'.calls :
             /\ lastOp'.calls[i].call = "selectionChanged"
             /\ lastOp'.calls[i].on = lastOp'.arg
        /\ Len(lastOp'.calls) = IF MapHas(documents, lastOp'.arg) THEN 1 ELSE 0 ]_vars

\* C12 happens: a selection change was forwarded to the controller of its
\* document while the registry held a controller of another document
C12_Witness ==
  /\ lastOp.op = "selectionChanged"
  /\ Len(lastOp.calls) = 1
  /\ MapHas(documents, lastOp.arg)
  /\ \E d \in MapKeys(documents) : d # lastOp.arg

\* C13: reload recreates all sessions: when a handler that ends in
\* reloadConfiguration has run while enabled, the registry holds only
\* controllers this reload built, each of an open document with a matching
\* entry that has rules; every such document has its controller or the grammar
\* load this reload started for it; no controller of before the reload is left.
C13_ReloadRecreatesAll ==
  (lastOp.op \in ReloadOps /\ prettySymbolsEnabled) =>
    /\ \A s \in Sessions : s.language.current /\ ~s.disposed
    /\ \A doc \in MapKeys(documents) : doc \in textDocuments /\ Eligible(doc)
    /\ \A doc \in textDocuments :
         Eligible(doc) =>
           \/ MapHas(documents, doc)
           \/ \E p \in Suspended : p.doc = doc /\ p.language.current

\* C14: teardown is final: once deactivate() has returned the registry is
\* empty and stays empty, also when an openDocument was awaiting its grammar
\* while deactivate ran, and no controller that was constructed is undisposed.
C14_TeardownIsFinal ==
  phase = "deactivated" => documents = << >> /\ orphaned = {}

\* C15: re-open refreshes instead of recreating: when openDocument(doc) runs
\* while enabled and the registry holds a controller for doc, it calls refresh
\* on that controller and nothing else: the registry is unchanged, no controller
\* is constructed, no grammar load is started, nothing is disposed, and a throw
\* of refresh stays inside openDocument.
C15_ReopenRefreshes ==
  [][ ( /\ lastOp'.op = "openDocument"
        /\ prettySymbolsEnabled
        /\ MapHas(documents, lastOp'.arg) )
      => /\ UNCHANGED << documents, pending, orphaned >>
         /\ Len(lastOp'.calls) = 1
         /\ lastOp'.calls[1].call = "refresh"
         /\ lastOp'.calls[1].on = lastOp'.arg
         /\ lastOp'.threw = None ]_vars

\* C15 happens: the document that was opened had a controller, which was
\* refreshed and is still the one the registry holds
C15_Witness ==
  /\ lastOp.op = "openDocument"
  /\ prettySymbolsEnabled
  /\ CallsOn("refresh", lastOp.arg) # {}
  /\ MapHas(documents, lastOp.arg)
  /\ Eligible(lastOp.arg)

\* isEnabled()
isEnabled == IF prettySymbolsEnabled THEN "true" ELSE "false"

\* C16: notifications agree with the flag: every call h(v) of an observer, in
\* enable, disable, toggle and deactivate, passes the value isEnabled() returns
\* at the call and after the handler (the flag is assigned before the forEach
\* and not again).
C16_NotificationsAgree ==
  \A i \in DOMAIN HandlerCalls : HandlerCalls[i].arg = isEnabled

\* the handlers that run onEnabledChangeHandlers.forEach
NotifyOps == {"disablePrettySymbols", "enablePrettySymbols", "togglePrettySymbols",
              "deactivate"}

\* the observers the last handler called
Notified == { HandlerCalls[i].on : i \in DOMAIN HandlerCalls }

\* C17: observer registration lifetime: on every enable, disable, toggle and
\* deactivate in which no observer throws, a handler is called if and only if
\* at least one Disposable that onDidEnabledChange returned for it is
\* undisposed, also when it was registered more than once and one of the
\* Disposables was disposed.
C17_RegistrationLifetime ==
  ( /\ lastOp.op \in NotifyOps
    /\ \A i \in DOMAIN HandlerCalls : ~HandlerCalls[i].throws )
    => \A h \in Handlers : h \in Notified <=> disposables[h] > 0

\* the first entry of the current settings whose language is the document's
\* has no rules
FirstEntryEmpty(doc) ==
  /\ EqualEntries(doc) # {}
  /\ LET first == CHOOSE i \in EqualEntries(doc) : \A j \in EqualEntries(doc) : i <= j
     IN Len(settings.substitutions[first].substitutions) = 0

\* C18: ineligible documents never get a session: in every state the registry
\* holds no controller for a document whose language is "plaintext" or "jsonc",
\* also when the configuration has an entry for it, and none for a document
\* whose first matching entry has no rules, also when a later entry has some.
C18_IneligibleNeverRegistered ==
  \A doc \in MapKeys(documents) :
    /\ languageId(doc) \notin {"plaintext", "jsonc"}
    /\ ~FirstEntryEmpty(doc)

\* the TextMate registry exists and a rule of the entry matched for the
\* document has a scope
NeedsGrammar(doc) ==
  /\ textMateRegistry # Undefined
  /\ \E e \in getLanguageEntry(settings, doc) :
       ~(\A i \in DOMAIN e.substitutions : e.substitutions[i].scope = Undefined)

\* what the last handler's openDocument(doc) did for an eligible document
\* without controller: started the grammar load and registered nothing, or
\* registered a controller without grammar at once
StartedOrRegistered(doc) ==
  IF NeedsGrammar(doc)
    THEN /\ Cardinality(CallsOn("loadGrammar", doc)) = 1
         /\ CallsOn("new", doc) = {}
         /\ ~MapHas(documents, doc)
         /\ \E p \in Suspended : p.doc = doc /\ p.language.current
    ELSE /\ CallsOn("loadGrammar", doc) = {}
         /\ Cardinality(CallsOn("new", doc)) = 1
         /\ RegisteredWithoutGrammar(doc)

\* C19: grammar loading is started only when needed: openDocument starts a
\* grammar load if and only if the TextMate registry exists and at least one
\* rule of the matched entry has a scope; otherwise it constructs the controller
\* with an undefined grammar and registers it in the same run, before any other
\* handler can run.
C19_GrammarOnlyWhenNeeded ==
  /\ \A i \in DOMAIN lastOp.calls :
       lastOp.calls[i].call = "loadGrammar"
         => Eligible(lastOp.calls[i].on) /\ NeedsGrammar(lastOp.calls[i].on)
  /\ ( /\ lastOp.op = "openDocument"
       /\ prettySymbolsEnabled
       /\ Eligible(lastOp.arg)
       /\ CallsOn("refresh", lastOp.arg) = {} )
       => StartedOrRegistered(lastOp.arg)
  /\ ( /\ lastOp.op \in ReloadOps
       /\ prettySymbolsEnabled
       /\ lastOp.threw = None )
       => \A doc \in textDocuments : Eligible(doc) => StartedOrRegistered(doc)

\* C19 happens: one handler started the grammar load of a document with a
\* scoped rule and registered, without grammar, the controller of a document
\* whose rules have no scope
C19_Witness ==
  /\ lastOp.op \in ReloadOps
  /\ textMateRegistry # Undefined
  /\ \E d \in textDocuments, e \in textDocuments :
       /\ NeedsGrammar(d)
       /\ CallsOn("loadGrammar", d) # {}
       /\ ~MapHas(documents, d)
       /\ ~NeedsGrammar(e)
       /\ CallsOn("new", e) # {}
       /\ RegisteredWithoutGrammar(e)

====
